---- MODULE Spec2Model ----
(***************************************************************************)
(* Dispatch layer of the Telegram webhook (src/index.js): the Redis-backed *)
(* per-thread depth counter (hash thread_queue_lengths), the chat-to-thread*)
(* mapping (hash chat_threads), the active chat set (set active_chats) and *)
(* the per-process promise chain threadQueues.                             *)
(*                                                                         *)
(* Granularity: every `await` of the handler is a suspension point.  One   *)
(* action is the effect of the awaited call on the store followed by the   *)
(* synchronous code that runs when the await resumes, up to the next       *)
(* await.  A `.then` callback on an already settled promise is a microtask *)
(* and runs before any other I/O callback, so it is part of the action     *)
(* that settles or chains the promise.                                     *)
(***************************************************************************)
EXTENDS Integers, Sequences, FiniteSets, TLC

\* ---------------------------------------------------------------- bounds
MaxDeliveries == 2      \* webhook deliveries in one behaviour of Spec
MaxBurst == 4           \* webhook deliveries in one behaviour of SpecBurst
MaxThreads == 3         \* thread identifiers the completion service can issue
MaxStuck == 3           \* webhook deliveries in one behaviour of SpecStuck
MaxCrowd == 3           \* webhook deliveries in one behaviour of SpecCrowd
MaxRelay == 1           \* webhook deliveries in one behaviour of SpecRelay
MaxHttp == 2            \* requests in one behaviour of SpecHttp
MaxCmd == 2             \* messages in one behaviour of SpecCommands
MaxClear == 3           \* messages in one behaviour of SpecClear
MaxMem == 4             \* webhook deliveries in one behaviour of SpecMem
MaxChunks == 3          \* chunks of the longest response the completion service returns

\* ------------------------------------------------------ program constants
MaxQueueLength == 3     \* index.js:359  if (queueLength >= 3)
CongestionThreshold == 3  \* index.js:261  if (activeChatsCount >= 3)
Absent == -1            \* a hash field that does not exist (hGet gives null)

\* ----------------------------------------------------------- environment
Procs == {1, 2}         \* processes sharing the Redis store
Chats == {1, 2, 3}      \* chats that send messages
NewChats == {3}         \* chats without a stored thread when the behaviour starts
BurstProcs == {1}       \* single-process specifications: the process
BurstChats == {1, 3}    \* single-process specifications: one established chat
                        \* and one new chat
Threads == 1..MaxThreads
Del == 1..(IF MaxBurst > MaxDeliveries THEN MaxBurst ELSE MaxDeliveries)

VARIABLES
  chatThreads,    \* Redis hash chat_threads: chat -> thread id, 0 = no field
  queueLengths,   \* Redis hash thread_queue_lengths: thread -> value or Absent
  activeChats,    \* Redis set active_chats
  threadQueues,   \* per process: Map threadId -> tail promise (delivery id), 0 = no entry
  nextThread,     \* next thread id the completion service issues
  nd,             \* deliveries received so far
  pc,             \* per delivery: position of its handler / state of its promise
  proc,           \* per delivery: process that handles it
  chat,           \* per delivery: chatId
  threadId,       \* per delivery: const threadId (line 241), 0 = null
  queueLength,    \* per delivery: const queueLength (line 358)
  prev,           \* per delivery: const prev (line 364), 0 = Promise.resolve()
  currentLength,  \* per delivery: const currentLength (line 369)
  outcome,        \* per delivery: how processRequest ended: "none", "ok", "error",
                  \* or "skipped" when the then-callback was never called
  releases,       \* history, per delivery: writes of its finally callback to the counter
  admitSeq,       \* history: units that passed the depth check and whose
                  \* processRequest has not completed, in the order of the check
  failed,         \* history, per delivery: the store call that threw, or "none"
  congestion,     \* per delivery: congestion notices sent to its chat (line 263)
  rejections,     \* per delivery: rejection notices sent to its chat (line 360)
  crowdedBy,      \* history: the delivery whose sAdd raised the cardinality of
                  \* active_chats to the congestion threshold, 0 = none since
                  \* the cardinality was last below it
  marked,         \* per delivery: its handler has called sAdd for its chat (line 258)
  sizeAfterAdd,   \* history, per delivery: cardinality of active_chats right
                  \* after its sAdd, kept until its sCard
  fullResponse,   \* per delivery: length of apiRes.data.response (line 305),
                  \* -1 = no answer yet
  offset,         \* per delivery: i of the chunk loop (line 313)
  relayed,        \* history, per delivery: the sendNotification calls of its
                  \* processRequest that have returned, in call order
  req,            \* per request: its endpoint, the value of the header the
                  \* endpoint checks, the text of its body, and whether the
                  \* body is well-formed JSON
  status,         \* per request: HTTP status of the answer, 0 = not answered
  notified,       \* per request: sendNotification calls of the /notify handler
                  \* (line 88)
  msgText,        \* per delivery: update.message.text (line 103) as the sequence
                  \* of its characters
  cleared,        \* history, per chat: a /clear of the chat has completed and no
                  \* ordinary message of the chat has been handled since
  progress,       \* per delivery: the progress message of its processRequest
                  \* (line 269): "none", "posted" or "deleted" (line 319)
  mem             \* the in-memory dispatch of unnamed/part_002 run on the same
                  \* deliveries: its Maps threadQueueLengths and threadQueues per
                  \* process (0 = no entry) and, per delivery, its prev and the
                  \* state of its unit: "none", "rejected", "queued",
                  \* "running" or "done"

vars == <<chatThreads, queueLengths, activeChats, threadQueues, nextThread, nd,
          pc, proc, chat, threadId, queueLength, prev, currentLength, outcome,
          releases, admitSeq, failed, congestion, rejections, crowdedBy,
          marked,
          sizeAfterAdd,
          fullResponse,
          offset,
          relayed,
          req,
          status,
          notified,
          msgText,
          cleared,
          progress,
          mem>>

\* ------------------------------------------------------------- helpers

\* Number(x): null converts to 0, a stored decimal string to its value.
ToNumber(v) == IF v = Absent THEN 0 ELSE v

\* a || d on numbers: 0 is falsy.
OrDefault(n, d) == IF n = 0 THEN d ELSE n

\* redis.hSet / redis.hDel on a hash
HSet(hash, k, v) == [hash EXCEPT ![k] = v]
HDel(hash, k) == [hash EXCEPT ![k] = Absent]

\* s without the element x
Without(s, x) == SelectSeq(s, LAMBDA y : y # x)

\* A promise `next` is settled once its finally callback has returned.
Settled(h) == pc[h] = "settled"

\* A promise `next` is rejected when its finally callback has thrown, or
\* when the promise it was chained on was rejected (then its own finally
\* callback has run and passes the rejection on).
Rejected(h) == pc[h] = "rejected"

\* A completion service that issues a new thread id on every call.
ReturnedThreadFresh(t) == nextThread

\* Thread id the completion service returns (apiRes.data.threadId): the one
\* passed in, or a newly issued one for a conversation without thread.
ReturnedThread(t) == IF t # 0 THEN t ELSE nextThread

\* Mutant of SendNotification: the message is not sent.
SendNotificationDropped(n) == n

\* Lines 58-71, sendNotification: one message is posted to the chat; n is the
\* number of messages of that kind posted before.  A failure of the relay
\* is returned as {error}, never thrown.
SendNotification(n) == n + 1

\* ------------------------------------------------------------ commands

\* Texts of messages, as sequences of characters.
Hello == <<"h", "i">>
CmdStart == <<"/", "s", "t", "a", "r", "t">>
CmdHelp == <<"/", "h", "e", "l", "p">>
CmdClear == <<"/", "c", "l", "e", "a", "r">>
CmdSystem == <<"/", "s", "y", "s", "t", "e", "m">>
CmdHistory == <<"/", "h", "i", "s", "t", "o", "r", "y">>

\* Texts of the messages a chat sends: an ordinary one, the commands alone,
\* with an argument and with a suffix, and a word with a slash that is no
\* command.
MessageTexts ==
  {Hello, CmdStart, CmdHelp, CmdClear, CmdSystem, CmdHistory,
   CmdClear \o <<" ", "x">>, CmdSystem \o <<"x">>, CmdClear \o <<"x">>,
   <<"/", "f", "o", "o">>}

\* String.prototype.startsWith.
StartsWith(s, prefix) ==
  Len(s) >= Len(prefix) /\ SubSeq(s, 1, Len(prefix)) = prefix

\* Line 136: text.split(" ")[0], the characters before the first space.
FirstWord(s) ==
  LET spaces == {k \in 1..Len(s) : s[k] = " "} IN
  IF spaces = {} THEN s
  ELSE SubSeq(s, 1, (CHOOSE k \in spaces : \A j \in spaces : k <= j) - 1)

\* Lines 135-238: the branch taken for the text of a message, "none" when
\* the handler goes on to line 241.
CommandOf(t) ==
  IF ~StartsWith(t, <<"/">>) THEN "none"
  ELSE LET command == FirstWord(t) IN
       IF command = CmdStart THEN "start"
       ELSE IF command = CmdHelp THEN "help"
       ELSE IF command = CmdClear THEN "clear"
       ELSE IF StartsWith(command, CmdSystem) THEN "system"
       ELSE IF command = CmdHistory THEN "history"
       ELSE "none"

\* A handler that returns at the end of the block of line 135 for every text
\* with a leading slash.
IsCommandAnySlash(t) == StartsWith(t, <<"/">>)

\* Lines 135-238: the handler returns inside the block of a command.
IsCommand(t) == CommandOf(t) # "none"

\* ------------------------------------------------------------ requests

\* A header or a body field that the request does not have.
Undefined == "(undefined)"

\* Lines 20 and 21: the configured secrets.
ERKUT_API_KEY == "key"
SECRET_TOKEN == "secret"

\* Values of the header a request carries: none, empty, wrong, and the
\* two secrets.
Headers == {Undefined, "", "wrong", ERKUT_API_KEY, SECRET_TOKEN}

\* Values of the text field of a body.
Texts == {Undefined, "", "hello"}

\* No request received yet.
NoRequest == [path |-> "none", header |-> Undefined, text |-> Undefined, json |-> TRUE]

\* !v for a string or undefined: undefined and the empty string are falsy.
Falsy(v) == v \in {Undefined, ""}

\* A token check that lets a request without the header pass.
ForbiddenUnlessMissing(sig) == sig # Undefined /\ sig # SECRET_TOKEN

\* Line 95: sig !== SECRET_TOKEN.
Forbidden(sig) == sig # SECRET_TOKEN

\* A key check that only refuses a missing key.
InvalidKeyIfMissing(clientKey) == Falsy(clientKey)

\* Line 76: !clientKey || clientKey !== ERKUT_API_KEY.
InvalidKey(clientKey) == Falsy(clientKey) \/ clientKey # ERKUT_API_KEY

\* ------------------------------------------------- in-memory dispatch

\* unnamed/part_002, lines 141-143: the Maps are empty when a process starts.
MemInit ==
  [lengths |-> [p \in Procs |-> [t \in Threads |-> 0]],
   queues |-> [p \in Procs |-> [t \in Threads |-> 0]],
   prev |-> [h \in Del |-> 0],
   state |-> [h \in Del |-> "none"]]

\* unnamed/part_002, lines 260-284, executed without any await in between:
\* the depth is read and checked; a full queue rejects; otherwise the depth
\* is incremented and the unit is chained on the tail and becomes the tail.
MemAdmit(h) ==
  LET p == proc[h]
      t == threadId[h]
      queueLen == mem.lengths[p][t]
      tail == mem.queues[p][t]
  IN IF queueLen >= MaxQueueLength
     THEN [mem EXCEPT !.state[h] = "rejected"]
     ELSE [mem EXCEPT !.lengths[p][t] = queueLen + 1,
                      !.queues[p][t] = h,
                      !.prev[h] = tail,
                      !.state[h] = IF tail = 0 THEN "running" ELSE "queued"]

\* unnamed/part_002, lines 269-283: processRequest of a running unit has
\* returned and its finally callback runs, without any await: the depth is
\* decremented or deleted, the tail entry is deleted if it is this unit, and
\* the unit chained on it starts.
MemAfterProcess(h) ==
  LET p == proc[h]
      t == threadId[h]
      current == IF mem.lengths[p][t] = 0 THEN 1 ELSE mem.lengths[p][t]
  IN IF t = 0 \/ mem.state[h] # "running" THEN mem
     ELSE [mem EXCEPT
             !.lengths[p][t] = IF current <= 1 THEN 0 ELSE current - 1,
             !.queues[p][t] = IF @ = h THEN 0 ELSE @,
             !.state = [x \in Del |->
                          IF x = h THEN "done"
                          ELSE IF mem.state[x] = "queued" /\ mem.prev[x] = h
                               THEN "running" ELSE mem.state[x]]]

\* The store outlives the processes: established chats already have a thread.
Init ==
  /\ chatThreads = [c \in Chats |-> IF c \in NewChats THEN 0 ELSE c]
  /\ queueLengths = [t \in Threads |-> Absent]
  /\ activeChats = {}
  /\ threadQueues = [p \in Procs |-> [t \in Threads |-> 0]]
  /\ nextThread = Cardinality(Chats \ NewChats) + 1
  /\ nd = 0
  /\ pc = [h \in Del |-> "idle"]
  /\ proc = [h \in Del |-> 0]
  /\ chat = [h \in Del |-> 0]
  /\ threadId = [h \in Del |-> 0]
  /\ queueLength = [h \in Del |-> 0]
  /\ prev = [h \in Del |-> 0]
  /\ currentLength = [h \in Del |-> 0]
  /\ outcome = [h \in Del |-> "none"]
  /\ releases = [h \in Del |-> 0]
  /\ admitSeq = <<>>
  /\ failed = [h \in Del |-> "none"]
  /\ congestion = [h \in Del |-> 0]
  /\ rejections = [h \in Del |-> 0]
  /\ crowdedBy = 0
  /\ marked = [h \in Del |-> FALSE]
  /\ sizeAfterAdd = [h \in Del |-> 0]
  /\ fullResponse = [h \in Del |-> -1]
  /\ offset = [h \in Del |-> 0]
  /\ relayed = [h \in Del |-> <<>>]
  /\ req = [h \in Del |-> NoRequest]
  /\ status = [h \in Del |-> 0]
  /\ notified = [h \in Del |-> 0]
  /\ msgText = [h \in Del |-> <<>>]
  /\ cleared = [c \in Chats |-> FALSE]
  /\ progress = [h \in Del |-> "none"]
  /\ mem = MemInit

\* ------------------------------------------------------------- handler

\* Lines 93-255 for an ordinary text message with the header value sig: the
\* secret token matches (line 95), 200 is answered (line 97) and the chat's
\* thread id is read from chat_threads.
Webhook(p, c, sig, t, max) ==
  /\ nd < max
  /\ ~Forbidden(sig)
  /\ ~IsCommand(t)
  /\ msgText' = [msgText EXCEPT ![nd + 1] = t]
  /\ cleared' = [cleared EXCEPT ![c] = FALSE]
  /\ req' = [req EXCEPT ![nd + 1] = [path |-> "webhook", header |-> sig,
                                     text |-> "hello", json |-> TRUE]]
  /\ status' = [status EXCEPT ![nd + 1] = 200]
  /\ nd' = nd + 1
  /\ proc' = [proc EXCEPT ![nd + 1] = p]
  /\ chat' = [chat EXCEPT ![nd + 1] = c]
  /\ threadId' = [threadId EXCEPT ![nd + 1] = chatThreads[c]]
  /\ pc' = [pc EXCEPT ![nd + 1] = "sAdd"]
  /\ UNCHANGED <<chatThreads, queueLengths, activeChats, threadQueues, nextThread,
                 queueLength, prev, currentLength, outcome, releases, admitSeq,
                 failed, congestion, rejections, crowdedBy,
                 marked,
                 sizeAfterAdd,
                 fullResponse,
                 offset,
                 relayed,
                 notified,
                 progress,
                 mem>>

\* A delivery by Telegram, which sends the secret token the webhook was
\* registered with.
Deliver(p, c, max) == Webhook(p, c, SECRET_TOKEN, Hello, max)

\* Lines 93-238 for a message whose text is a command: 200 is answered, the
\* branch of the command runs and the handler returns.  /clear deletes the
\* chat's field of chat_threads (line 157); the other commands read or write
\* the user's settings and history in PocketBase only.  Every branch ends
\* with a sendNotification and a return.
Command(p, c, t, max) ==
  /\ nd < max
  /\ IsCommand(t)
  /\ nd' = nd + 1
  /\ proc' = [proc EXCEPT ![nd + 1] = p]
  /\ chat' = [chat EXCEPT ![nd + 1] = c]
  /\ msgText' = [msgText EXCEPT ![nd + 1] = t]
  /\ req' = [req EXCEPT ![nd + 1] = [path |-> "webhook", header |-> SECRET_TOKEN,
                                     text |-> "hello", json |-> TRUE]]
  /\ status' = [status EXCEPT ![nd + 1] = 200]
  /\ chatThreads' = IF CommandOf(t) = "clear" THEN HSet(chatThreads, c, 0)
                    ELSE chatThreads
  /\ cleared' = IF CommandOf(t) = "clear" THEN [cleared EXCEPT ![c] = TRUE]
                ELSE cleared
  /\ pc' = [pc EXCEPT ![nd + 1] = "answered"]
  /\ UNCHANGED <<queueLengths, activeChats, threadQueues, nextThread, threadId,
                 queueLength, prev, currentLength, outcome, releases, admitSeq,
                 failed, congestion, rejections, crowdedBy, marked, sizeAfterAdd,
                 fullResponse, offset, relayed, notified,
                 progress,
                 mem>>

\* Line 15: express.json() runs before every route; a body that is not
\* well-formed JSON is answered 400 by the framework's error handler and no
\* route handler is called.
JsonRejected(p, path, hdr, max) ==
  /\ nd < max
  /\ nd' = nd + 1
  /\ proc' = [proc EXCEPT ![nd + 1] = p]
  /\ req' = [req EXCEPT ![nd + 1] = [path |-> path, header |-> hdr,
                                     text |-> Undefined, json |-> FALSE]]
  /\ status' = [status EXCEPT ![nd + 1] = 400]
  /\ pc' = [pc EXCEPT ![nd + 1] = "answered"]
  /\ UNCHANGED <<chatThreads, queueLengths, activeChats, threadQueues, nextThread,
                 chat, threadId, queueLength, prev, currentLength, outcome,
                 releases, admitSeq, failed, congestion, rejections, crowdedBy,
                 marked, sizeAfterAdd, fullResponse, offset, relayed, notified,
                 msgText,
                 cleared,
                 progress,
                 mem>>

\* Lines 94-96: the secret token does not match; 403 is answered and the
\* handler returns.
WebhookForbidden(p, sig, max) ==
  /\ nd < max
  /\ Forbidden(sig)
  /\ nd' = nd + 1
  /\ proc' = [proc EXCEPT ![nd + 1] = p]
  /\ req' = [req EXCEPT ![nd + 1] = [path |-> "webhook", header |-> sig,
                                     text |-> "hello", json |-> TRUE]]
  /\ status' = [status EXCEPT ![nd + 1] = 403]
  /\ pc' = [pc EXCEPT ![nd + 1] = "answered"]
  /\ UNCHANGED <<chatThreads, queueLengths, activeChats, threadQueues, nextThread,
                 chat, threadId, queueLength, prev, currentLength, outcome,
                 releases, admitSeq, failed, congestion, rejections, crowdedBy,
                 marked, sizeAfterAdd, fullResponse, offset, relayed, notified,
                 msgText,
                 cleared,
                 progress,
                 mem>>

\* Lines 74-90: POST /notify.  verifyApiKey answers 401 or calls the handler,
\* which answers 400 without a text and otherwise awaits sendNotification
\* and answers with its result, {ok, data} or {error}, with status 200.
Notify(p, clientKey, text, max) ==
  /\ nd < max
  /\ nd' = nd + 1
  /\ proc' = [proc EXCEPT ![nd + 1] = p]
  /\ req' = [req EXCEPT ![nd + 1] = [path |-> "notify", header |-> clientKey,
                                     text |-> text, json |-> TRUE]]
  /\ status' = [status EXCEPT ![nd + 1] =
                  IF InvalidKey(clientKey) THEN 401
                  ELSE IF Falsy(text) THEN 400 ELSE 200]
  /\ notified' = [notified EXCEPT ![nd + 1] =
                    IF ~InvalidKey(clientKey) /\ ~Falsy(text)
                    THEN SendNotification(@) ELSE @]
  /\ pc' = [pc EXCEPT ![nd + 1] = "answered"]
  /\ UNCHANGED <<chatThreads, queueLengths, activeChats, threadQueues, nextThread,
                 chat, threadId, queueLength, prev, currentLength, outcome,
                 releases, admitSeq, failed, congestion, rejections, crowdedBy,
                 marked, sizeAfterAdd, fullResponse, offset, relayed,
                 msgText,
                 cleared,
                 progress,
                 mem>>

\* Whether a cardinality of active_chats triggers the congestion notice
\* (line 261).
Crowded(n) == n >= CongestionThreshold

\* Line 258: await redis.sAdd("active_chats", chatId)
SAdd(h) ==
  /\ pc[h] = "sAdd"
  /\ activeChats' = activeChats \cup {chat[h]}
  /\ marked' = [marked EXCEPT ![h] = TRUE]
  /\ sizeAfterAdd' = [sizeAfterAdd EXCEPT ![h] = Cardinality(activeChats')]
  /\ crowdedBy' = IF ~Crowded(Cardinality(activeChats)) /\ Crowded(Cardinality(activeChats'))
                  THEN h ELSE crowdedBy
  /\ pc' = [pc EXCEPT ![h] = "sCard"]
  /\ UNCHANGED <<chatThreads, queueLengths, threadQueues, nextThread, nd, proc, chat,
                 threadId, queueLength, prev, currentLength, outcome, releases, admitSeq,
                 failed, congestion, rejections,
                 fullResponse,
                 offset,
                 relayed,
                 req,
                 status,
                 notified,
                 msgText,
                 cleared,
                 progress,
                 mem>>

\* Mutant of AfterActiveSet: the depth check is applied to every message.
AfterActiveSetAlwaysChecked(t) == "hGetLen"

\* Lines 355-356 and 384-387: where the handler goes after the active-set
\* update: to the depth check when the chat has a thread, otherwise straight
\* into processRequest.
AfterActiveSet(t) == IF t # 0 THEN "hGetLen" ELSE "running"

\* Mutant of AfterCardinality: a crowded active set turns the request away.
AfterCardinalityBlocking(n, t) == IF Crowded(n) THEN "refused" ELSE AfterActiveSet(t)

\* Lines 261-264 and 355-356: where the handler goes after reading the
\* cardinality n of active_chats.  The notice of line 263 is awaited and
\* the handler goes on to the branch of line 356 whatever n is.
AfterCardinality(n, t) == AfterActiveSet(t)

\* Lines 259-264, then the branch of line 356: the cardinality is read, the
\* congestion notice (sendNotification never throws) is sent, and a message
\* without thread starts processRequest at once.
SCard(h) ==
  /\ pc[h] = "sCard"
  /\ sizeAfterAdd' = [sizeAfterAdd EXCEPT ![h] = 0]
  /\ congestion' = [congestion EXCEPT ![h] = IF Crowded(Cardinality(activeChats))
                                             THEN SendNotification(congestion[h])
                                             ELSE congestion[h]]
  /\ pc' = [pc EXCEPT ![h] = AfterCardinality(Cardinality(activeChats), threadId[h])]
  /\ UNCHANGED <<chatThreads, queueLengths, activeChats, threadQueues, nextThread, nd,
                 proc, chat, threadId, queueLength, prev, currentLength, outcome,
                 releases, admitSeq,
                 failed, rejections, crowdedBy,
                 marked,
                 fullResponse,
                 offset,
                 relayed,
                 req,
                 status,
                 notified,
                 msgText,
                 cleared,
                 progress,
                 mem>>

\* Mutant of TailOf: one chain per process, shared by all threads.
TailOfAnyThread(p, t) ==
  LET tails == {threadQueues[p][u] : u \in Threads} \ {0}
  IN IF tails = {} THEN 0 ELSE CHOOSE x \in tails : \A y \in tails : y <= x

\* Line 364, threadQueues.get(threadId): the tail of the chain of thread t
\* in process p, 0 when the Map has no entry.
TailOf(p, t) == threadQueues[p][t]

\* Line 359: the depth check.
QueueFull(len) == len >= MaxQueueLength

\* Lines 358-364: the depth is read and checked; a full queue sends the
\* rejection notice and returns; otherwise the tail promise is read.
Admission(h) ==
  /\ pc[h] = "hGetLen"
  /\ LET len == OrDefault(ToNumber(queueLengths[threadId[h]]), 0)
     IN IF QueueFull(len)
        THEN /\ pc' = [pc EXCEPT ![h] = "refused"]
             /\ rejections' = [rejections EXCEPT ![h] = SendNotification(rejections[h])]
             /\ UNCHANGED <<queueLength, prev, admitSeq>>
        ELSE /\ pc' = [pc EXCEPT ![h] = "hSetLen"]
             /\ UNCHANGED rejections
             /\ queueLength' = [queueLength EXCEPT ![h] = len]
             /\ prev' = [prev EXCEPT ![h] = TailOf(proc[h], threadId[h])]
             /\ admitSeq' = Append(admitSeq, h)
  /\ UNCHANGED <<chatThreads, queueLengths, activeChats, threadQueues, nextThread, nd,
                 proc, chat, threadId, currentLength, outcome, releases,
                 failed, congestion, crowdedBy,
                 marked,
                 sizeAfterAdd,
                 fullResponse,
                 offset,
                 relayed,
                 req,
                 status,
                 notified,
                 msgText,
                 cleared,
                 progress>>

\* Lines 358-364 in the Redis-backed dispatch alone.
HGetLen(h) == Admission(h) /\ UNCHANGED mem

\* Lines 358-364, with the in-memory dispatch handling the same delivery at
\* the same moment.
HGetLenBoth(h) == Admission(h) /\ mem' = MemAdmit(h)

\* Mutant of ChainedOn: the release callback is chained before processRequest
\* (prev.finally(release).then(processRequest)).
ChainedOnReleaseFirst(prevSettled) == IF prevSettled THEN "relHGet" ELSE "queued"

\* Line 367, prev.then(() => processRequest()): the state of a unit chained
\* on prev, given whether prev has settled.
ChainedOn(prevSettled) == IF prevSettled THEN "running" ELSE "queued"

\* Lines 365-382: the counter is written, the unit is chained after prev and
\* becomes the tail.  When prev is already settled the unit starts at once;
\* when prev is rejected the then-callback is skipped and only the finally
\* callback runs.
HSetLen(h) ==
  /\ pc[h] = "hSetLen"
  /\ queueLengths' = HSet(queueLengths, threadId[h], queueLength[h] + 1)
  /\ threadQueues' = [threadQueues EXCEPT ![proc[h]][threadId[h]] = h]
  /\ IF prev[h] # 0 /\ Rejected(prev[h])
     THEN /\ pc' = [pc EXCEPT ![h] = "relHGet"]
          /\ outcome' = [outcome EXCEPT ![h] = "skipped"]
          /\ admitSeq' = Without(admitSeq, h)
     ELSE /\ pc' = [pc EXCEPT ![h] = ChainedOn(prev[h] = 0 \/ Settled(prev[h]))]
          /\ UNCHANGED <<outcome, admitSeq>>
  /\ queueLength' = [queueLength EXCEPT ![h] = 0]
  /\ UNCHANGED <<chatThreads, activeChats, nextThread, nd, proc, chat, threadId, prev,
                 currentLength, releases,
                 failed, congestion, rejections, crowdedBy,
                 marked,
                 sizeAfterAdd,
                 fullResponse,
                 offset,
                 relayed,
                 req,
                 status,
                 notified,
                 msgText,
                 cleared,
                 progress,
                 mem>>

\* ------------------------------------------------------ request processor

\* Mutant of AfterProcess: processRequest without its catch, chained with
\* .then instead of .finally: a failure skips the release.
AfterProcessNoCatch(t, ok) == IF t # 0 /\ ok THEN "relHGet" ELSE "finished"

\* A no-thread path whose unit removes its chat from active_chats when it
\* completes.
AfterProcessRemovesChat(t, ok) == IF t # 0 THEN "relHGet" ELSE "sRem"

\* Lines 267-353 and 367: what follows processRequest.  Every failure inside
\* processRequest is caught (line 350), so its promise fulfils whatever the
\* outcome and the finally callback of a chained unit runs; a unit started
\* on the no-thread path (line 386) has nothing chained on it.
AfterProcess(t, ok) == IF t # 0 THEN "relHGet" ELSE "finished"

\* Lines 267-353: processRequest.  The progress message is posted (line 269);
\* on success the thread id returned by the completion service is cached
\* (line 302) and the progress message is deleted (line 319); a failure is
\* that of the completion call (line 298), which leads to the catch of line
\* 350.
Processed(h, ok) ==
  /\ pc[h] = "running"
  /\ progress' = [progress EXCEPT ![h] = IF ok THEN "deleted" ELSE "posted"]
  /\ ok => ReturnedThread(threadId[h]) <= MaxThreads
  /\ outcome' = [outcome EXCEPT ![h] = IF ok THEN "ok" ELSE "error"]
  /\ IF ok
     THEN /\ chatThreads' = HSet(chatThreads, chat[h], ReturnedThread(threadId[h]))
          /\ nextThread' = IF threadId[h] = 0 THEN nextThread + 1 ELSE nextThread
     ELSE UNCHANGED <<chatThreads, nextThread>>
  /\ pc' = [pc EXCEPT ![h] = AfterProcess(threadId[h], ok)]
  /\ admitSeq' = Without(admitSeq, h)
  /\ UNCHANGED <<queueLengths, activeChats, threadQueues, nd, proc, chat, threadId,
                 queueLength, prev, currentLength, releases,
                 failed, congestion, rejections, crowdedBy,
                 marked,
                 sizeAfterAdd,
                 fullResponse,
                 offset,
                 relayed,
                 req,
                 status,
                 notified,
                 msgText,
                 cleared>>

\* Lines 267-353 in the Redis-backed dispatch alone.
ProcessRequest(h, ok) == Processed(h, ok) /\ UNCHANGED mem

\* Lines 267-353, with the processRequest of the same unit returning at the
\* same moment in the in-memory dispatch.
ProcessRequestBoth(h, ok) == Processed(h, ok) /\ mem' = MemAfterProcess(h)

\* ------------------------------------------------------------ chunk relay

\* Line 304: const telegramMaxLength = 4096.
telegramMaxLength == 4096

\* Lengths of the responses the completion service returns: empty, and for
\* every number of chunks the shortest and the longest response.
Lengths ==
  {0} \cup {(k - 1) * telegramMaxLength + 1 : k \in 1..MaxChunks}
      \cup {k * telegramMaxLength : k \in 1..MaxChunks}

Min(a, b) == IF a < b THEN a ELSE b

\* String.prototype.slice(a, b) of a string of length len, 0 <= a <= b: the
\* characters at the positions from min(a, len) up to min(b, len), excluded.
Slice(len, a, b) == [from |-> Min(a, len), to |-> Min(b, len)]

\* Line 314 with a slice that is not cut at the end of the string.
ChunkAtUnclamped(len, i) == [from |-> i, to |-> i + telegramMaxLength]

\* Line 314: const chunk = fullResponse.slice(i, i + telegramMaxLength).
ChunkAt(len, i) == Slice(len, i, i + telegramMaxLength)

\* A sendNotification that lets the error of axios.post escape.
SendNotificationRethrows(ok) == ~ok

\* Lines 59-70: sendNotification catches the error of axios.post and returns
\* {error: e.message}; it never throws.
SendNotificationThrows(ok) == FALSE

\* Lines 298-311: the completion service answered with a response of length
\* len.  The returned thread id is cached (line 302); for an empty response
\* the notice of line 308 is sent, with result ok.
Complete(h, len, ok) ==
  /\ pc[h] = "running"
  /\ progress' = [progress EXCEPT ![h] = "posted"]
  /\ ReturnedThread(threadId[h]) <= MaxThreads
  /\ chatThreads' = HSet(chatThreads, chat[h], ReturnedThread(threadId[h]))
  /\ nextThread' = IF threadId[h] = 0 THEN nextThread + 1 ELSE nextThread
  /\ fullResponse' = [fullResponse EXCEPT ![h] = len]
  /\ offset' = [offset EXCEPT ![h] = 0]
  /\ relayed' = IF len = 0
                THEN [relayed EXCEPT ![h] = Append(@, [kind |-> "notice", from |-> 0,
                                                         to |-> 0, ok |-> ok])]
                ELSE relayed
  /\ pc' = [pc EXCEPT ![h] = "relay"]
  /\ UNCHANGED <<queueLengths, activeChats, threadQueues, nd, proc, chat, threadId,
                 queueLength, prev, currentLength, outcome, releases, admitSeq,
                 failed, congestion, rejections, crowdedBy, marked, sizeAfterAdd,
                 req,
                 status,
                 notified,
                 msgText,
                 cleared,
                 mem>>

\* Lines 313-315: the loop condition holds and sendNotification is called
\* with the chunk at i; the loop is suspended on the await.
SendChunk(h) ==
  /\ pc[h] = "relay"
  /\ offset[h] < fullResponse[h]
  /\ pc' = [pc EXCEPT ![h] = "sending"]
  /\ UNCHANGED <<chatThreads, queueLengths, activeChats, threadQueues, nextThread,
                 nd, proc, chat, threadId, queueLength, prev, currentLength,
                 outcome, releases, admitSeq, failed, congestion, rejections,
                 crowdedBy, marked, sizeAfterAdd, fullResponse, offset, relayed,
                 req,
                 status,
                 notified,
                 msgText,
                 cleared,
                 progress,
                 mem>>

\* Lines 315 and 313: the awaited sendNotification returns, with {ok: true}
\* or {error}; the result is dropped and i += telegramMaxLength.  An
\* exception would leave the loop for the catch of line 350.
ChunkReturned(h, ok) ==
  /\ pc[h] = "sending"
  /\ UNCHANGED mem
  /\ relayed' = [relayed EXCEPT ![h] =
                   Append(@, [kind |-> "chunk",
                              from |-> ChunkAt(fullResponse[h], offset[h]).from,
                              to |-> ChunkAt(fullResponse[h], offset[h]).to,
                              ok |-> ok])]
  /\ IF SendNotificationThrows(ok)
     THEN /\ outcome' = [outcome EXCEPT ![h] = "error"]
          /\ pc' = [pc EXCEPT ![h] = AfterProcess(threadId[h], FALSE)]
          /\ admitSeq' = Without(admitSeq, h)
          /\ UNCHANGED offset
     ELSE /\ offset' = [offset EXCEPT ![h] = @ + telegramMaxLength]
          /\ pc' = [pc EXCEPT ![h] = "relay"]
          /\ UNCHANGED <<outcome, admitSeq>>
  /\ UNCHANGED <<chatThreads, queueLengths, activeChats, threadQueues, nextThread,
                 nd, proc, chat, threadId, queueLength, prev, currentLength,
                 releases, failed, congestion, rejections, crowdedBy, marked,
                 sizeAfterAdd, fullResponse,
                 req,
                 status,
                 notified,
                 msgText,
                 cleared,
                 progress>>

\* Lines 313 and 318-352: the loop condition fails; the progress message is
\* deleted (ok: deleteMessage answered, otherwise its error is caught at line
\* 350) and processRequest returns.
EndRelay(h, ok) ==
  /\ pc[h] = "relay"
  /\ UNCHANGED mem
  /\ progress' = [progress EXCEPT ![h] = IF ok THEN "deleted" ELSE @]
  /\ ~(offset[h] < fullResponse[h])
  /\ outcome' = [outcome EXCEPT ![h] = IF ok THEN "ok" ELSE "error"]
  /\ pc' = [pc EXCEPT ![h] = AfterProcess(threadId[h], ok)]
  /\ admitSeq' = Without(admitSeq, h)
  /\ UNCHANGED <<chatThreads, queueLengths, activeChats, threadQueues, nextThread,
                 nd, proc, chat, threadId, queueLength, prev, currentLength,
                 releases, failed, congestion, rejections, crowdedBy, marked,
                 sizeAfterAdd, fullResponse, offset, relayed,
                 req,
                 status,
                 notified,
                 msgText,
                 cleared>>

\* --------------------------------------------------------------- release

\* The units that start when the promise `next` of h settles: those chained
\* on it by prev.then (line 367).
Woken(h) == {x \in Del : pc[x] = "queued" /\ prev[x] = h}

\* Line 369: const currentLength = Number(await hGet(...)) || 1
RelHGet(h) ==
  /\ pc[h] = "relHGet"
  /\ currentLength' = [currentLength EXCEPT
                         ![h] = OrDefault(ToNumber(queueLengths[threadId[h]]), 1)]
  /\ pc' = [pc EXCEPT ![h] = "relWrite"]
  /\ UNCHANGED <<chatThreads, queueLengths, activeChats, threadQueues, nextThread, nd,
                 proc, chat, threadId, queueLength, prev, outcome, releases, admitSeq,
                 failed, congestion, rejections, crowdedBy,
                 marked,
                 sizeAfterAdd,
                 fullResponse,
                 offset,
                 relayed,
                 req,
                 status,
                 notified,
                 msgText,
                 cleared,
                 progress,
                 mem>>

\* `next` of h becomes st ("settled" or "rejected").  The units chained on
\* a fulfilled promise start their processRequest; those chained on a
\* rejected promise skip it (prev.then(f) does not call f) and go straight
\* to their finally callback.
SettleAs(h, st) ==
  /\ pc' = [x \in Del |-> IF x = h THEN st
                          ELSE IF x \notin Woken(h) THEN pc[x]
                          ELSE IF st = "settled" THEN ChainedOn(TRUE) ELSE "relHGet"]
  /\ outcome' = [x \in Del |-> IF x \in Woken(h) /\ st = "rejected"
                               THEN "skipped" ELSE outcome[x]]
  /\ admitSeq' = IF st = "rejected"
                 THEN SelectSeq(admitSeq, LAMBDA y : y \notin Woken(h))
                 ELSE admitSeq

\* The finally callback has returned: `next` of h settles as the promise
\* prev.then(...) did, and the units chained on it are woken.
Settle(h) == SettleAs(h, IF outcome[h] = "skipped" THEN "rejected" ELSE "settled")

\* Mutant of IsTail: the comparison never succeeds.
IsTailNever(p, t, h) == FALSE

\* Line 377, threadQueues.get(threadId) === next: the promise of h is
\* still the tail of the chain of thread t in process p.
IsTail(p, t, h) == threadQueues[p][t] = h

\* Mutant of LastUnit: the key is deleted only when the value read is 0.
LastUnitAtZero(len) == len <= 0

\* Line 370, if (currentLength <= 1): the counter key is deleted instead of
\* being decremented.
LastUnit(len) == len <= 1

\* Lines 370-378: the counter is deleted or decremented; then, if this unit
\* is still the tail, the Map entry is deleted.
RelWrite(h) ==
  /\ pc[h] = "relWrite"
  /\ queueLengths' = IF LastUnit(currentLength[h])
                     THEN HDel(queueLengths, threadId[h])
                     ELSE HSet(queueLengths, threadId[h], currentLength[h] - 1)
  /\ currentLength' = [currentLength EXCEPT ![h] = 0]
  /\ IF IsTail(proc[h], threadId[h], h)
     THEN /\ threadQueues' = [threadQueues EXCEPT ![proc[h]][threadId[h]] = 0]
          /\ pc' = [pc EXCEPT ![h] = "sRem"]
          /\ UNCHANGED <<outcome, admitSeq>>
     ELSE /\ UNCHANGED threadQueues
          /\ Settle(h)
  /\ releases' = [releases EXCEPT ![h] = releases[h] + 1]
  /\ UNCHANGED <<chatThreads, activeChats, nextThread, nd, proc, chat, threadId,
                 queueLength, prev,
                 failed, congestion, rejections, crowdedBy,
                 marked,
                 sizeAfterAdd,
                 fullResponse,
                 offset,
                 relayed,
                 req,
                 status,
                 notified,
                 msgText,
                 cleared,
                 progress,
                 mem>>

\* Line 379: await redis.sRem("active_chats", chatId); then `next` settles.
SRem(h) ==
  /\ pc[h] = "sRem"
  /\ activeChats' = activeChats \ {chat[h]}
  /\ crowdedBy' = IF Crowded(Cardinality(activeChats')) THEN crowdedBy ELSE 0
  /\ Settle(h)
  /\ UNCHANGED <<chatThreads, queueLengths, threadQueues, nextThread, nd, proc, chat,
                 threadId, queueLength, prev, currentLength, releases,
                 failed, congestion, rejections,
                 marked,
                 sizeAfterAdd,
                 fullResponse,
                 offset,
                 relayed,
                 req,
                 status,
                 notified,
                 msgText,
                 cleared,
                 progress,
                 mem>>

\* -------------------------------------------------------- store failures

\* Store calls awaited inside the finally callback (lines 369-379).
ReleaseOps == {"relHGet", "relWrite", "sRem"}

\* Store calls of the admission step of an established thread (lines 358, 365).
AdmissionOps == {"hGetLen", "hSetLen"}

\* Mutant of AfterStoreFailure: a store call that throws in the handler is
\* caught and the request is processed all the same.
AfterStoreFailureIgnored(op) == IF op \in ReleaseOps THEN "rejected" ELSE "running"

\* What a throwing `await redis.*` leads to.  The handler (lines 93-389) has
\* no try/catch around its store calls: the async handler rejects and the
\* rest of it never runs.  Inside the finally callback (lines 367-381) the
\* throw rejects the promise `next`.
AfterStoreFailure(op) == IF op \in ReleaseOps THEN "rejected" ELSE "dropped"

\* Line 241 throws, after the answer of line 97: the handler ends before
\* threadId is bound.
WebhookFail(p, c, sig, t, max) ==
  /\ nd < max
  /\ ~Forbidden(sig)
  /\ ~IsCommand(t)
  /\ msgText' = [msgText EXCEPT ![nd + 1] = t]
  /\ cleared' = cleared
  /\ req' = [req EXCEPT ![nd + 1] = [path |-> "webhook", header |-> sig,
                                     text |-> "hello", json |-> TRUE]]
  /\ status' = [status EXCEPT ![nd + 1] = 200]
  /\ nd' = nd + 1
  /\ proc' = [proc EXCEPT ![nd + 1] = p]
  /\ chat' = [chat EXCEPT ![nd + 1] = c]
  /\ failed' = [failed EXCEPT ![nd + 1] = "hGetThread"]
  /\ pc' = [pc EXCEPT ![nd + 1] = AfterStoreFailure("hGetThread")]
  /\ UNCHANGED <<chatThreads, queueLengths, activeChats, threadQueues, nextThread,
                 threadId, queueLength, prev, currentLength, outcome, releases,
                 admitSeq, congestion, rejections, crowdedBy,
                 marked,
                 sizeAfterAdd,
                 fullResponse,
                 offset,
                 relayed,
                 notified,
                 progress,
                 mem>>

\* Line 241 throws for a delivery by Telegram.
DeliverFail(p, c, max) == WebhookFail(p, c, SECRET_TOKEN, Hello, max)

\* Line 258 throws; the command may or may not have been applied.
SAddFail(h, applied) ==
  /\ pc[h] = "sAdd"
  /\ activeChats' = IF applied THEN activeChats \cup {chat[h]} ELSE activeChats
  /\ marked' = [marked EXCEPT ![h] = applied]
  /\ UNCHANGED sizeAfterAdd
  /\ crowdedBy' = IF ~Crowded(Cardinality(activeChats)) /\ Crowded(Cardinality(activeChats'))
                  THEN h ELSE crowdedBy
  /\ failed' = [failed EXCEPT ![h] = "sAdd"]
  /\ pc' = [pc EXCEPT ![h] = AfterStoreFailure("sAdd")]
  /\ UNCHANGED <<chatThreads, queueLengths, threadQueues, nextThread, nd, proc, chat,
                 threadId, queueLength, prev, currentLength, outcome, releases, admitSeq,
                 congestion, rejections,
                 fullResponse,
                 offset,
                 relayed,
                 req,
                 status,
                 notified,
                 msgText,
                 cleared,
                 progress,
                 mem>>

\* Line 259 throws.
SCardFail(h) ==
  /\ pc[h] = "sCard"
  /\ sizeAfterAdd' = [sizeAfterAdd EXCEPT ![h] = 0]
  /\ failed' = [failed EXCEPT ![h] = "sCard"]
  /\ pc' = [pc EXCEPT ![h] = AfterStoreFailure("sCard")]
  /\ UNCHANGED <<chatThreads, queueLengths, activeChats, threadQueues, nextThread, nd,
                 proc, chat, threadId, queueLength, prev, currentLength, outcome,
                 releases, admitSeq, congestion, rejections, crowdedBy,
                 marked,
                 fullResponse,
                 offset,
                 relayed,
                 req,
                 status,
                 notified,
                 msgText,
                 cleared,
                 progress,
                 mem>>

\* Line 358 throws: neither the check nor the tail read is executed.
HGetLenFail(h) ==
  /\ pc[h] = "hGetLen"
  /\ failed' = [failed EXCEPT ![h] = "hGetLen"]
  /\ pc' = [pc EXCEPT ![h] = AfterStoreFailure("hGetLen")]
  /\ UNCHANGED <<chatThreads, queueLengths, activeChats, threadQueues, nextThread, nd,
                 proc, chat, threadId, queueLength, prev, currentLength, outcome,
                 releases, admitSeq, congestion, rejections, crowdedBy,
                 marked,
                 sizeAfterAdd,
                 fullResponse,
                 offset,
                 relayed,
                 req,
                 status,
                 notified,
                 msgText,
                 cleared,
                 progress,
                 mem>>

\* Line 365 throws, with the counter written or not: lines 367-382 are not
\* executed, so nothing is chained and the tail is not replaced.
HSetLenFail(h, applied) ==
  /\ pc[h] = "hSetLen"
  /\ queueLengths' = IF applied THEN HSet(queueLengths, threadId[h], queueLength[h] + 1)
                     ELSE queueLengths
  /\ failed' = [failed EXCEPT ![h] = "hSetLen"]
  /\ pc' = [pc EXCEPT ![h] = AfterStoreFailure("hSetLen")]
  /\ queueLength' = [queueLength EXCEPT ![h] = 0]
  /\ admitSeq' = Without(admitSeq, h)
  /\ UNCHANGED <<chatThreads, activeChats, threadQueues, nextThread, nd, proc, chat,
                 threadId, prev, currentLength, outcome, releases, congestion,
                 rejections, crowdedBy,
                 marked,
                 sizeAfterAdd,
                 fullResponse,
                 offset,
                 relayed,
                 req,
                 status,
                 notified,
                 msgText,
                 cleared,
                 progress,
                 mem>>

\* Line 369 throws inside the finally callback: `next` is rejected with the
\* counter not decremented and the Map entry left in place.
RelHGetFail(h) ==
  /\ pc[h] = "relHGet"
  /\ failed' = [failed EXCEPT ![h] = "relHGet"]
  /\ SettleAs(h, AfterStoreFailure("relHGet"))
  /\ UNCHANGED <<chatThreads, queueLengths, activeChats, threadQueues, nextThread, nd,
                 proc, chat, threadId, queueLength, prev, currentLength, releases,
                 congestion, rejections, crowdedBy,
                 marked,
                 sizeAfterAdd,
                 fullResponse,
                 offset,
                 relayed,
                 req,
                 status,
                 notified,
                 msgText,
                 cleared,
                 progress,
                 mem>>

\* Line 371 or 374 throws, with the counter written or not: the tail
\* comparison of line 377 is not reached.
RelWriteFail(h, applied) ==
  /\ pc[h] = "relWrite"
  /\ queueLengths' = IF ~applied THEN queueLengths
                     ELSE IF LastUnit(currentLength[h])
                     THEN HDel(queueLengths, threadId[h])
                     ELSE HSet(queueLengths, threadId[h], currentLength[h] - 1)
  /\ releases' = [releases EXCEPT ![h] = IF applied THEN releases[h] + 1 ELSE releases[h]]
  /\ currentLength' = [currentLength EXCEPT ![h] = 0]
  /\ failed' = [failed EXCEPT ![h] = "relWrite"]
  /\ SettleAs(h, AfterStoreFailure("relWrite"))
  /\ UNCHANGED <<chatThreads, activeChats, threadQueues, nextThread, nd, proc, chat,
                 threadId, queueLength, prev, congestion, rejections, crowdedBy,
                 marked,
                 sizeAfterAdd,
                 fullResponse,
                 offset,
                 relayed,
                 req,
                 status,
                 notified,
                 msgText,
                 cleared,
                 progress,
                 mem>>

\* Line 379 throws after the Map entry was deleted.
SRemFail(h, applied) ==
  /\ pc[h] = "sRem"
  /\ activeChats' = IF applied THEN activeChats \ {chat[h]} ELSE activeChats
  /\ crowdedBy' = IF Crowded(Cardinality(activeChats')) THEN crowdedBy ELSE 0
  /\ failed' = [failed EXCEPT ![h] = "sRem"]
  /\ SettleAs(h, AfterStoreFailure("sRem"))
  /\ UNCHANGED <<chatThreads, queueLengths, threadQueues, nextThread, nd, proc, chat,
                 threadId, queueLength, prev, currentLength, releases, congestion,
                 rejections,
                 marked,
                 sizeAfterAdd,
                 fullResponse,
                 offset,
                 relayed,
                 req,
                 status,
                 notified,
                 msgText,
                 cleared,
                 progress,
                 mem>>

\* Positions of a delivery that a process exit leaves untouched.
Over == {"idle", "answered", "refused", "finished", "settled", "lost"}

\* The process p ends and is started again: the new process has an empty
\* threadQueues Map (line 55) and the handlers and promises of the old one
\* are gone.  The store is untouched.
ProcessExit(p) ==
  /\ pc' = [h \in Del |-> IF proc[h] = p /\ pc[h] \notin Over THEN "lost" ELSE pc[h]]
  /\ threadQueues' = [threadQueues EXCEPT ![p] = [t \in Threads |-> 0]]
  /\ admitSeq' = SelectSeq(admitSeq, LAMBDA y : proc[y] # p)
  /\ queueLength' = [h \in Del |-> IF proc[h] = p THEN 0 ELSE queueLength[h]]
  /\ currentLength' = [h \in Del |-> IF proc[h] = p THEN 0 ELSE currentLength[h]]
  /\ sizeAfterAdd' = [h \in Del |-> IF proc[h] = p THEN 0 ELSE sizeAfterAdd[h]]
  /\ UNCHANGED <<chatThreads, queueLengths, activeChats, nextThread, nd, proc, chat,
                 threadId, prev, outcome, releases, failed, congestion, rejections,
                 crowdedBy,
                 marked,
                 fullResponse,
                 offset,
                 relayed,
                 req,
                 status,
                 notified,
                 msgText,
                 cleared,
                 progress,
                 mem>>

\* A rejection nobody handles (the rejected handler, or a rejected `next`
\* with nothing chained on it) ends the process when the runtime treats
\* unhandled rejections as fatal (src/Dockerfile: node:22, `node index.js`).
Crash(p) ==
  /\ \E h \in Del : proc[h] = p /\ pc[h] \in {"dropped", "rejected"}
  /\ ProcessExit(p)

\* The process is restarted (new deployment, container restart) while
\* handlers or units of it are under way.
Restart(p) ==
  /\ \E h \in Del : proc[h] = p /\ pc[h] \notin Over
  /\ ProcessExit(p)

\* --------------------------------------------------------- specifications

\* Any delivery to any process; the completion service or the relay may fail.
Next ==
  \/ \E p \in Procs, c \in Chats : Deliver(p, c, MaxDeliveries)
  \/ \E h \in Del : SAdd(h)
  \/ \E h \in Del : SCard(h)
  \/ \E h \in Del : HGetLen(h)
  \/ \E h \in Del : HSetLen(h)
  \/ \E h \in Del, ok \in BOOLEAN : ProcessRequest(h, ok)
  \/ \E h \in Del : RelHGet(h)
  \/ \E h \in Del : RelWrite(h)
  \/ \E h \in Del : SRem(h)

Spec == Init /\ [][Next]_vars

\* A burst of deliveries to one process, from one established chat and one
\* new chat, with a completion service that answers.
NextBurst ==
  \/ \E p \in BurstProcs, c \in BurstChats : Deliver(p, c, MaxBurst)
  \/ \E h \in Del : SAdd(h)
  \/ \E h \in Del : SCard(h)
  \/ \E h \in Del : HGetLen(h)
  \/ \E h \in Del : HSetLen(h)
  \/ \E h \in Del : ProcessRequest(h, TRUE)
  \/ \E h \in Del : RelHGet(h)
  \/ \E h \in Del : RelWrite(h)
  \/ \E h \in Del : SRem(h)

SpecBurst == Init /\ [][NextBurst]_vars

\* A burst of deliveries of one established chat to one process that may be
\* restarted at any moment, with a completion service that answers.
NextRestart ==
  \/ \E p \in BurstProcs, c \in BurstChats \ NewChats : Deliver(p, c, MaxBurst)
  \/ \E h \in Del : SAdd(h)
  \/ \E h \in Del : SCard(h)
  \/ \E h \in Del : HGetLen(h)
  \/ \E h \in Del : HSetLen(h)
  \/ \E h \in Del : ProcessRequest(h, TRUE)
  \/ \E h \in Del : RelHGet(h)
  \/ \E h \in Del : RelWrite(h)
  \/ \E h \in Del : SRem(h)
  \/ \E p \in BurstProcs : Restart(p)

SpecRestart == Init /\ [][NextRestart]_vars

\* Deliveries to one process from three chats, enough to crowd
\* the active set, with a completion service that answers.
NextCrowd ==
  \/ \E p \in BurstProcs, c \in Chats : Deliver(p, c, MaxCrowd)
  \/ \E h \in Del : SAdd(h)
  \/ \E h \in Del : SCard(h)
  \/ \E h \in Del : HGetLen(h)
  \/ \E h \in Del : HSetLen(h)
  \/ \E h \in Del : ProcessRequest(h, TRUE)
  \/ \E h \in Del : RelHGet(h)
  \/ \E h \in Del : RelWrite(h)
  \/ \E h \in Del : SRem(h)

SpecCrowd == Init /\ [][NextCrowd]_vars

\* Deliveries to one process, from one established chat and one new chat,
\* with a store whose calls may throw and a runtime that may exit on an
\* unhandled rejection.
NextStoreFail ==
  \/ \E p \in BurstProcs, c \in BurstChats : Deliver(p, c, MaxDeliveries)
  \/ \E h \in Del : SAdd(h)
  \/ \E h \in Del : SCard(h)
  \/ \E h \in Del : HGetLen(h)
  \/ \E h \in Del : HSetLen(h)
  \/ \E h \in Del, ok \in BOOLEAN : ProcessRequest(h, ok)
  \/ \E h \in Del : RelHGet(h)
  \/ \E h \in Del : RelWrite(h)
  \/ \E h \in Del : SRem(h)
  \/ \E p \in BurstProcs, c \in BurstChats : DeliverFail(p, c, MaxDeliveries)
  \/ \E h \in Del, applied \in BOOLEAN : SAddFail(h, applied)
  \/ \E h \in Del : SCardFail(h)
  \/ \E h \in Del : HGetLenFail(h)
  \/ \E h \in Del, applied \in BOOLEAN : HSetLenFail(h, applied)
  \/ \E h \in Del : RelHGetFail(h)
  \/ \E h \in Del, applied \in BOOLEAN : RelWriteFail(h, applied)
  \/ \E h \in Del, applied \in BOOLEAN : SRemFail(h, applied)
  \/ \E p \in BurstProcs : Crash(p)

SpecStoreFail == Init /\ [][NextStoreFail]_vars

\* One step of the handler or of the promise callbacks of delivery h: the
\* continuation after an await, which the event loop runs once the awaited
\* call has answered.
Step(h) ==
  \/ SAdd(h) \/ SCard(h) \/ HGetLen(h) \/ HSetLen(h)
  \/ RelHGet(h) \/ RelWrite(h) \/ SRem(h)

\* Spec with a store and a completion service that always answer: every
\* pending continuation is eventually run.
SpecLive ==
  Spec /\ \A h \in Del : WF_vars(Step(h) \/ \E ok \in BOOLEAN : ProcessRequest(h, ok))

\* Deliveries to one process, from one established chat and one new chat.
NextFair ==
  \/ \E p \in BurstProcs, c \in BurstChats : Deliver(p, c, MaxDeliveries)
  \/ \E h \in Del : Step(h)
  \/ \E h \in Del, ok \in BOOLEAN : ProcessRequest(h, ok)

\* One process with a store and a completion service that always answer:
\* every pending continuation is eventually run.
SpecFair ==
  /\ Init /\ [][NextFair]_vars
  /\ \A h \in Del : WF_vars(Step(h) \/ \E ok \in BOOLEAN : ProcessRequest(h, ok))

\* processRequest in the steps of its chunk loop: deliveries to one process
\* from one established and one new chat; the completion service fails
\* (ProcessRequest with ok = FALSE) or answers with a response whose chunks
\* are relayed one by one.
RelayStep(h) ==
  \/ \E len \in Lengths, ok \in BOOLEAN : Complete(h, len, ok)
  \/ SendChunk(h)
  \/ \E ok \in BOOLEAN : ChunkReturned(h, ok)
  \/ \E ok \in BOOLEAN : EndRelay(h, ok)
  \/ ProcessRequest(h, FALSE)

NextRelay ==
  \/ \E p \in BurstProcs, c \in BurstChats : Deliver(p, c, MaxRelay)
  \/ \E h \in Del : Step(h)
  \/ \E h \in Del : RelayStep(h)

\* Every awaited call answers, so every pending continuation is eventually
\* run.
SpecRelay ==
  /\ Init /\ [][NextRelay]_vars
  /\ \A h \in Del : WF_vars(Step(h) \/ RelayStep(h))

\* The two endpoints with any header value: requests to one process, webhook
\* updates from one established and one new chat, a store whose first read
\* can fail and a completion service that can fail.
NextHttp ==
  \/ \E p \in BurstProcs, c \in BurstChats, sig \in Headers : Webhook(p, c, sig, Hello, MaxHttp)
  \/ \E p \in BurstProcs, c \in BurstChats, sig \in Headers : WebhookFail(p, c, sig, Hello, MaxHttp)
  \/ \E p \in BurstProcs, sig \in Headers : WebhookForbidden(p, sig, MaxHttp)
  \/ \E p \in BurstProcs, path \in {"webhook", "notify"}, hdr \in Headers :
       JsonRejected(p, path, hdr, MaxHttp)
  \/ \E p \in BurstProcs, clientKey \in Headers, text \in Texts :
       Notify(p, clientKey, text, MaxHttp)
  \/ \E h \in Del : Step(h)
  \/ \E h \in Del, ok \in BOOLEAN : ProcessRequest(h, ok)
  \/ \E p \in BurstProcs : Crash(p)

SpecHttp == Init /\ [][NextHttp]_vars

\* Messages with any of the texts, commands among them, to one process from
\* one established and one new chat; the completion service can fail.
NextCommands ==
  \/ \E p \in BurstProcs, c \in BurstChats, t \in MessageTexts :
       Webhook(p, c, SECRET_TOKEN, t, MaxCmd)
  \/ \E p \in BurstProcs, c \in BurstChats, t \in MessageTexts :
       Command(p, c, t, MaxCmd)
  \/ \E h \in Del : Step(h)
  \/ \E h \in Del, ok \in BOOLEAN : ProcessRequest(h, ok)

SpecCommands == Init /\ [][NextCommands]_vars

\* Ordinary messages and /clear commands to one process from one
\* established and one new chat; the completion service always answers.
NextClear ==
  \/ \E p \in BurstProcs, c \in BurstChats : Deliver(p, c, MaxClear)
  \/ \E p \in BurstProcs, c \in BurstChats : Command(p, c, CmdClear, MaxClear)
  \/ \E h \in Del : Step(h)
  \/ \E h \in Del : ProcessRequest(h, TRUE)

SpecClear == Init /\ [][NextClear]_vars

\* The two dispatches have decided alike on every delivery both have
\* decided on, and the Redis-backed dispatch runs no unit of a thread that
\* the in-memory dispatch does not run.
MemAgrees ==
  /\ \A h \in Del :
       mem.state[h] # "none" => (pc[h] = "refused" <=> mem.state[h] = "rejected")
  /\ \A h \in Del :
       (threadId[h] # 0 /\ pc[h] = "running") => mem.state[h] = "running"

\* The Redis-backed and the in-memory dispatch side by side: deliveries of
\* an established chat to one process, a completion service that always
\* answers.  The comparison ends with the first disagreement.
NextMem ==
  \/ MemAgrees /\ \E p \in BurstProcs, c \in BurstChats \ NewChats : Deliver(p, c, MaxMem)
  \/ MemAgrees /\ \E h \in Del : SAdd(h)
  \/ MemAgrees /\ \E h \in Del : SCard(h)
  \/ MemAgrees /\ \E h \in Del : HGetLenBoth(h)
  \/ MemAgrees /\ \E h \in Del : HSetLen(h)
  \/ MemAgrees /\ \E h \in Del : ProcessRequestBoth(h, TRUE)
  \/ MemAgrees /\ \E h \in Del : RelHGet(h)
  \/ MemAgrees /\ \E h \in Del : RelWrite(h)
  \/ MemAgrees /\ \E h \in Del : SRem(h)

SpecMem == Init /\ [][NextMem]_vars

\* Threads whose processRequest never returns in SpecStuck.
StuckThreads == {1}

\* Deliveries of the established chats to one process, with a completion
\* service that never answers for the threads of StuckThreads.
NextStuck ==
  \/ \E p \in BurstProcs, c \in Chats \ NewChats : Deliver(p, c, MaxStuck)
  \/ \E h \in Del : Step(h)
  \/ \E h \in Del, ok \in BOOLEAN :
       threadId[h] \notin StuckThreads /\ ProcessRequest(h, ok)

\* Every continuation whose awaited call answers is eventually run.
SpecStuck ==
  /\ Init /\ [][NextStuck]_vars
  /\ \A h \in Del :
       WF_vars(Step(h) \/ \E ok \in BOOLEAN :
                            threadId[h] \notin StuckThreads /\ ProcessRequest(h, ok))

\* ------------------------------------------------------------ properties

\* Units of thread t that are enqueued (counter written, chained) and whose
\* release has not yet written the counter.
InFlight(t) ==
  {h \in Del : threadId[h] = t /\ pc[h] \in {"queued", "running", "relHGet", "relWrite"}}

\* Units of thread t that are enqueued and whose processRequest has not completed.
Pending(t) == {h \in Del : threadId[h] = t /\ pc[h] \in {"queued", "running"}}

\* Units of thread t between passing the depth check and their release.
Unreleased(t) ==
  {h \in Del : threadId[h] = t /\
               pc[h] \in {"hSetLen", "queued", "running", "relHGet", "relWrite"}}

\* Positions of a unit whose processRequest has completed.
ReleasePath == {"relHGet", "relWrite", "sRem", "settled"}

\* C1: for every thread, the number of units admitted (depth check passed and
\* enqueued) and not yet released never exceeds 3.
C1_DepthBounded ==
  \A t \in Threads : Cardinality(InFlight(t)) <= MaxQueueLength

\* C2: within one process, at most one processRequest of a thread is
\* executing at any time.
C2_OneAtATime ==
  \A p \in Procs, t \in Threads :
    Cardinality({h \in Del : proc[h] = p /\ threadId[h] = t /\ pc[h] = "running"}) <= 1

\* C3: within one process, units of a thread start in the order in which
\* they passed the depth check: a unit is not running while a unit of the
\* same thread that passed the check before it has not completed.
C3_StartInAdmissionOrder ==
  \A i, j \in 1..Len(admitSeq) :
    (/\ i < j
     /\ proc[admitSeq[i]] = proc[admitSeq[j]]
     /\ threadId[admitSeq[i]] = threadId[admitSeq[j]])
    => pc[admitSeq[j]] # "running"

\* C4: a delivery whose depth check happens while its thread has 3 admitted
\* units that have not completed is rejected, and one whose thread has no
\* admitted unit is admitted.
C4_FullThreadRejects ==
  [][\A h \in Del :
       (pc[h] = "hGetLen" /\ pc'[h] # "hGetLen") =>
         /\ Cardinality(Pending(threadId[h])) >= MaxQueueLength => pc'[h] = "refused"
         /\ Unreleased(threadId[h]) = {} => pc'[h] = "hSetLen"]_vars

C6_AbsentIffDrained ==
  [][\A h \in Del :
       (pc[h] = "relWrite" /\ pc'[h] # "relWrite") =>
         ((queueLengths'[threadId[h]] = Absent) <=> (InFlight(threadId[h]) \ {h} = {}))]_vars

\* C7: the counter is never negative, and once every admission of a thread
\* has been matched by its release the thread has no counter key.
C7_NoResidue ==
  \A t \in Threads :
    /\ queueLengths[t] = Absent \/ queueLengths[t] >= 0
    /\ Unreleased(t) = {} => queueLengths[t] = Absent

\* C8: the counter of a thread equals the number of its admitted and not yet
\* released units over all processes, and is at least the number in any one
\* process.
C8_CounterIsGlobalCount ==
  \A t \in Threads :
    /\ ToNumber(queueLengths[t]) = Cardinality(InFlight(t))
    /\ \A p \in Procs :
         ToNumber(queueLengths[t]) >= Cardinality({h \in InFlight(t) : proc[h] = p})

\* C9: a unit is released at most once, only after its processRequest has
\* completed (with success or failure), and a unit whose completion callback
\* has passed the counter write was released exactly once.
C9_ReleasedOnceAfterProcessing ==
  \A h \in Del :
    /\ releases[h] <= 1
    /\ releases[h] = 1 => outcome[h] # "none"
    /\ pc[h] \in {"sRem", "settled"} <=> releases[h] = 1

\* C9 witness: two units of one thread, one processed with success and one
\* with a failure, have both been released once and have settled.
C9_Witness ==
  \E a, b \in Del :
    /\ threadId[a] = threadId[b] /\ threadId[a] # 0
    /\ outcome[a] = "ok" /\ outcome[b] = "error"
    /\ pc[a] = "settled" /\ pc[b] = "settled"
    /\ releases[a] = 1 /\ releases[b] = 1

\* C10: a unit whose processRequest failed still runs its completion
\* callback: it is released, its drain check runs, and the unit chained on it
\* starts and runs its own processRequest.
C10_FailureStillCompletes ==
  \A h \in Del :
    (outcome[h] = "error" /\ threadId[h] # 0) =>
      /\ pc[h] \in ReleasePath
      /\ pc[h] \in {"sRem", "settled"} => releases[h] = 1
      /\ pc[h] = "settled" =>
           /\ threadQueues[proc[h]][threadId[h]] # h
           /\ \A x \in Del :
                prev[x] = h =>
                  /\ pc[x] # "queued"
                  /\ pc[x] \in ReleasePath => outcome[x] # "none"

\* C10 witness: a failed unit has settled and the unit chained on it is
\* running its processRequest.
C10_Witness ==
  \E h, x \in Del :
    /\ outcome[h] = "error" /\ pc[h] = "settled" /\ releases[h] = 1
    /\ prev[x] = h /\ pc[x] = "running" /\ outcome[x] = "none"

\* Positions of a delivery whose handler and promise have nothing left to do.
Terminal == {"answered", "refused", "finished", "settled", "rejected", "dropped", "lost"}

\* C12: a chat with a unit of work that is queued or running (under a thread
\* or on the no-thread path) is a member of the active chat set.
C12_PendingChatIsActive ==
  \A h \in Del : pc[h] \in {"queued", "running"} => chat[h] \in activeChats

\* Chat c has sent messages and every one of them has been dealt with:
\* processed on either path, or rejected.
AllDone(c) ==
  /\ \E h \in Del : chat[h] = c
  /\ \A h \in Del : chat[h] = c => pc[h] \in Terminal

\* C13: once every message of a chat has been dealt with (processed on
\* either path, or rejected), the chat is eventually removed from the
\* active set.
C13_EventuallyRemoved ==
  \A c \in Chats : AllDone(c) ~> (c \notin activeChats)

\* C14: when a chat without thread sends message a and then message b, the
\* processRequest of b does not run before that of a has completed.
C14_SecondMessageWaits ==
  \A a, b \in Del :
    (/\ a < b /\ chat[a] = chat[b]
     /\ pc[a] # "idle" /\ threadId[a] = 0
     /\ pc[b] = "running")
    => outcome[a] # "none"

\* C16: the entry of a thread in the process's chain map is deleted, and
\* the chat removed from the active set, only when no other unit of that
\* thread is queued or running in that process.
C16_RemovedOnlyWhenDrained ==
  [][\A h \in Del :
       (\/ pc[h] = "relWrite" /\ pc'[h] = "sRem"
        \/ pc[h] = "sRem" /\ pc'[h] # "sRem")
       => {x \in Del \ {h} : /\ proc[x] = proc[h] /\ threadId[x] = threadId[h]
                             /\ pc[x] \in {"queued", "running"}} = {}]_vars

\* C11: a store failure inside the release step of a unit does not poison
\* the chain: the processRequest of a unit chained on that unit is never
\* skipped.
C11_NoPoison ==
  \A x \in Del :
    (prev[x] # 0 /\ failed[prev[x]] \in ReleaseOps) => outcome[x] # "skipped"

\* C17: a message whose thread lookup (line 241) failed is handled as a new
\* conversation: it goes on without thread id to processRequest.
C17_LookupFailureStartsNew ==
  \A h \in Del :
    failed[h] = "hGetThread" =>
      /\ threadId[h] = 0
      /\ pc[h] \in {"sAdd", "sCard", "running", "finished"}

\* C18: a request whose admission step had a store call fail (the read or
\* the write of the depth counter) is dropped: its processRequest is never
\* invoked, it is not the tail of any chain and nothing is chained on it.
C18_AdmissionFailureDrops ==
  \A h \in Del :
    failed[h] \in AdmissionOps =>
      /\ pc[h] \in {"dropped", "lost"}
      /\ outcome[h] = "none"
      /\ \A p \in Procs, t \in Threads : threadQueues[p][t] # h
      /\ \A x \in Del : prev[x] # h

\* C18 witness: a request was dropped by a failed counter write while another
\* unit of the same thread is running in the same process.
C18_Witness ==
  \E h, x \in Del :
    /\ failed[h] = "hSetLen" /\ pc[h] = "dropped"
    /\ proc[x] = proc[h] /\ threadId[x] = threadId[h] /\ pc[x] = "running"

\* C15: the congestion notice is sent once per crowding of the active set,
\* for the request whose admission raised the cardinality to 3: that
\* request gets the notice, and no other request gets one while the
\* cardinality stays at 3 or more.
C15_NoticeOncePerCrowding ==
  /\ [](crowdedBy # 0 /\ pc[crowdedBy] \notin {"idle", "sAdd", "sCard"}
          => congestion[crowdedBy] = 1)
  /\ [][\A h \in Del : congestion'[h] # congestion[h] => h = crowdedBy]_vars

\* C20: a request rejected by the depth check has sent exactly one rejection
\* notice, never has its processRequest invoked and is never chained; the
\* rejecting step leaves the depth counters, the chain maps and the
\* chat-to-thread mapping as they were; and a rejected request stays rejected.
C20_RejectionChangesNothing ==
  /\ [](\A h \in Del :
          pc[h] = "refused" =>
            /\ rejections[h] = 1
            /\ outcome[h] = "none"
            /\ \A p \in Procs, t \in Threads : threadQueues[p][t] # h
            /\ \A x \in Del : prev[x] # h)
  /\ [][\A h \in Del :
          /\ (pc[h] # "refused" /\ pc'[h] = "refused") =>
               /\ queueLengths' = queueLengths
               /\ threadQueues' = threadQueues
               /\ chatThreads' = chatThreads
          /\ pc[h] = "refused" => pc'[h] = "refused"]_vars

\* C20 witness: a request was rejected while three units of its thread are
\* admitted and not released, the counter being 3.
C20_Witness ==
  \E h \in Del :
    /\ pc[h] = "refused" /\ rejections[h] = 1
    /\ queueLengths[threadId[h]] = MaxQueueLength
    /\ Cardinality(InFlight(threadId[h])) = MaxQueueLength

\* C19: while a processRequest of a stuck thread never returns, every unit
\* admitted for another thread is started and completes, and the depth
\* counter and the chain of another thread change only in steps of that
\* thread's own requests.
C19_StuckThreadDelaysOnlyItself ==
  /\ \A h \in Del :
       (pc[h] \in {"hSetLen", "queued", "running"} /\ threadId[h] \notin StuckThreads)
       ~> (pc[h] = "settled" /\ outcome[h] \in {"ok", "error"})
  /\ [][\A t \in Threads \ StuckThreads :
          (\/ queueLengths'[t] # queueLengths[t]
           \/ \E p \in Procs : threadQueues'[p][t] # threadQueues[p][t])
          => \E h \in Del : threadId[h] = t /\ pc'[h] # pc[h]]_vars

\* C19 witness: a unit of the stuck thread is running and never returns
\* while a request of another thread, delivered later and chained behind a
\* unit of its own thread, has completed.
C19_Witness ==
  \E a, b \in Del :
    /\ a < b
    /\ threadId[a] \in StuckThreads /\ pc[a] = "running"
    /\ threadId[b] \notin StuckThreads /\ prev[b] # 0
    /\ pc[b] = "settled" /\ outcome[b] = "ok"

\* C21: the depth check comes before the active-set update: a request
\* rejected by the depth check has not added its chat to the active set and
\* has not sent a congestion notice.
C21_RejectedNeverMarked ==
  \A h \in Del : pc[h] = "refused" => ~marked[h] /\ congestion[h] = 0

\* C22: the congestion threshold never blocks: whatever cardinality a
\* request reads, it goes on to the depth check when its chat has a thread
\* and to processRequest when it has none, and the depth check rejects it
\* exactly when the stored depth of its thread is 3 or more.
C22_CongestionNeverBlocks ==
  /\ [][\A h \in Del :
          (pc[h] = "sCard" /\ pc'[h] # "sCard") =>
            pc'[h] = IF threadId[h] # 0 THEN "hGetLen" ELSE "running"]_vars
  /\ [][\A h \in Del :
          (pc[h] = "hGetLen" /\ pc'[h] # "hGetLen") =>
            (pc'[h] = "refused" <=> ToNumber(queueLengths[threadId[h]]) >= MaxQueueLength)]_vars

\* C22 witness: with three chats in the active set, a request of an
\* established chat and a request of a new chat both got the congestion
\* notice and both had their processRequest run to the end.
C22_Witness ==
  \E h, g \in Del :
    /\ congestion[h] = 1 /\ threadId[h] # 0 /\ outcome[h] = "ok"
    /\ congestion[g] = 1 /\ threadId[g] = 0 /\ outcome[g] = "ok"
    /\ Cardinality(activeChats) >= CongestionThreshold

\* C26: marking a chat that is already a member leaves the active set
\* unchanged, and the cardinality a request reads for the congestion
\* decision is the size the set had right after that request's own add.
C26_CardinalityIsSizeAfterAdd ==
  /\ [][\A h \in Del :
          (pc[h] = "sAdd" /\ pc'[h] = "sCard" /\ chat[h] \in activeChats)
          => activeChats' = activeChats]_vars
  /\ [][\A h \in Del :
          (pc[h] = "sCard" /\ pc'[h] \in {"hGetLen", "running"})
          => Cardinality(activeChats) = sizeAfterAdd[h]]_vars

\* C28: the value stored in the depth counter of a thread is absent or an
\* integer from 1 to 3.
C28_CounterInRange ==
  \A t \in Threads : queueLengths[t] = Absent \/ queueLengths[t] \in 1..MaxQueueLength

\* C28 witness: the counter of a thread holds 2 while three units of the
\* thread are admitted and not released.
C28_Witness ==
  \E t \in Threads : queueLengths[t] = 2 /\ Cardinality(InFlight(t)) = 3

\* C29: admission for a thread recovers: a delivery whose depth check
\* happens while no unit of its thread is admitted and unreleased in any
\* live process is admitted.
C29_AdmissionRecovers ==
  [][\A h \in Del :
       (/\ pc[h] = "hGetLen" /\ pc'[h] \notin {"hGetLen", "lost"}
        /\ Unreleased(threadId[h]) = {})
       => pc'[h] = "hSetLen"]_vars

\* C30: when every processRequest terminates and no store call fails, the
\* processRequest of every admitted unit is eventually invoked and
\* completes, and the chain map of a process has an entry for a thread only
\* while the unit at the tail of that chain has not finished.
C30_AdmittedRunsAndDrains ==
  /\ \A h \in Del :
       (pc[h] \in {"hSetLen", "queued"}) ~> (outcome[h] \in {"ok", "error"})
  /\ \A h \in Del :
       (pc[h] \in {"hSetLen", "queued", "running"} /\ threadId[h] # 0)
       ~> (pc[h] = "settled" /\ releases[h] = 1)
  /\ [](\A p \in Procs, t \in Threads :
          threadQueues[p][t] # 0 =>
            pc[threadQueues[p][t]] \in {"queued", "running", "relHGet", "relWrite"})

\* C30 witness: a unit and the unit chained on it have both been processed
\* and released, and the chain map has no entry left for their thread.
C30_Witness ==
  \E a, b \in Del :
    /\ prev[b] = a /\ pc[a] = "settled" /\ pc[b] = "settled"
    /\ outcome[a] # "none" /\ outcome[b] # "none"
    /\ threadQueues[proc[b]][threadId[b]] = 0

\* C23: for a non-empty response, the chunks relayed so far are consecutive
\* pieces of the response starting at its first character, each of at most
\* telegramMaxLength characters and each but the last of exactly that many;
\* once processRequest has returned they make up the whole response; and a
\* chunk is sent only when every chunk before it has returned.
C23_ChunksRebuildResponse ==
  /\ [](\A h \in Del :
          fullResponse[h] > 0 =>
            LET r == relayed[h] IN
            /\ \A k \in 1..Len(r) :
                 /\ r[k].kind = "chunk"
                 /\ r[k].from = (IF k = 1 THEN 0 ELSE r[k - 1].to)
                 /\ r[k].to > r[k].from
                 /\ r[k].to - r[k].from <= telegramMaxLength
                 /\ k < Len(r) => r[k].to - r[k].from = telegramMaxLength
            /\ outcome[h] # "none" => Len(r) > 0 /\ r[Len(r)].to = fullResponse[h])
  /\ [][\A h \in Del :
          (pc[h] # "sending" /\ pc'[h] = "sending") =>
            /\ pc[h] = "relay"
            /\ Len(relayed[h]) * telegramMaxLength = offset[h]]_vars

\* A response of three chunks, the last of one character, was relayed.
C23_Witness ==
  \E h \in Del :
    /\ fullResponse[h] = 2 * telegramMaxLength + 1
    /\ outcome[h] = "ok"
    /\ Len(relayed[h]) = 3
    /\ relayed[h][3].to - relayed[h][3].from = 1

\* C27: a chunk whose relay failed is not sent again and does not stop the
\* loop: the next sendNotification call carries the chunk that follows it,
\* and the unit whose chunk failed relays the whole response, completes and,
\* on a thread, is released once.
C27_FailedChunkContained ==
  /\ [][\A h \in Del :
          (pc[h] = "sending" /\ pc'[h] # "sending") =>
            /\ pc'[h] = "relay"
            /\ offset'[h] = relayed'[h][Len(relayed'[h])].from + telegramMaxLength]_vars
  /\ \A h \in Del :
       (\E k \in 1..Len(relayed[h]) : ~relayed[h][k].ok)
       ~> (/\ pc[h] = IF threadId[h] # 0 THEN "settled" ELSE "finished"
           /\ threadId[h] # 0 => releases[h] = 1
           /\ outcome[h] # "none"
           /\ Len(relayed[h]) > 0
           /\ relayed[h][Len(relayed[h])].to = fullResponse[h])

\* The second of three chunks failed on a thread; all three were relayed
\* and the unit was released.
C27_Witness ==
  \E h \in Del :
    /\ threadId[h] # 0
    /\ Len(relayed[h]) = 3
    /\ relayed[h][1].ok /\ ~relayed[h][2].ok /\ relayed[h][3].ok
    /\ relayed[h][3].to = fullResponse[h]
    /\ pc[h] = "settled" /\ releases[h] = 1

C35_CommandsNotDispatched ==
  /\ [](\A h \in Del :
          (pc[h] # "idle" /\ CommandOf(msgText[h]) # "none") =>
            /\ pc[h] = "answered"
            /\ outcome[h] = "none" /\ ~marked[h])
  /\ [][\A h \in Del :
          (pc[h] = "idle" /\ pc'[h] # "idle") =>
            IF CommandOf(msgText'[h]) # "none"
            THEN UNCHANGED <<activeChats, queueLengths, threadQueues, nextThread>>
            ELSE pc'[h] = "sAdd"]_vars

\* A /system command with a suffix was answered, and a message with a slash
\* that is no command was processed.
C35_Witness ==
  \E h, g \in Del :
    /\ msgText[h] = CmdSystem \o <<"x">> /\ pc[h] = "answered"
    /\ msgText[g] = <<"/", "f", "o", "o">> /\ outcome[g] = "ok"

\* C31: the ordinary message that follows a completed /clear of its chat
\* finds no thread id.
C31_ClearStartsNewConversation ==
  [][\A h \in Del :
       (pc[h] = "idle" /\ pc'[h] = "sAdd" /\ cleared[chat'[h]]) =>
         threadId'[h] = 0]_vars

\* C32: the field of a chat in chat_threads changes only when a completion
\* call of the chat succeeds or a /clear of the chat deletes it; after a
\* successful call it holds the thread id the call returned, which for a
\* call made with a thread id is that same id, so the chat stays on the same
\* chain and counter; a failed call leaves every field as it was.
C32_MappingChangesOnSuccessOrClear ==
  [][\A c \in Chats :
       /\ chatThreads'[c] # chatThreads[c] =>
            \/ \E h \in Del : chat[h] = c /\ outcome[h] = "none" /\ outcome'[h] = "ok"
            \/ \E h \in Del : /\ pc[h] = "idle" /\ pc'[h] = "answered" /\ chat'[h] = c
                              /\ CommandOf(msgText'[h]) = "clear"
                              /\ chatThreads'[c] = 0
       /\ \A h \in Del :
            (chat[h] = c /\ outcome[h] = "none" /\ outcome'[h] = "ok") =>
              chatThreads'[c] = IF threadId[h] # 0 THEN threadId[h] ELSE nextThread
       /\ \A h \in Del :
            (chat[h] = c /\ outcome[h] = "none" /\ outcome'[h] = "error") =>
              chatThreads' = chatThreads]_vars

\* C32 as stated: the field of a chat changes only when a completion call
\* of the chat succeeds.
C32_MappingChangesOnSuccessOnly ==
  [][\A c \in Chats :
       chatThreads'[c] # chatThreads[c] =>
         \E h \in Del : chat[h] = c /\ outcome[h] = "none" /\ outcome'[h] = "ok"]_vars

\* A call made with a thread id succeeded and the chat kept the id, after a
\* call of a chat without thread had failed and left it without one.
C32_Witness ==
  \E h, g \in Del :
    /\ threadId[h] # 0 /\ outcome[h] = "ok" /\ chatThreads[chat[h]] = threadId[h]
    /\ threadId[g] = 0 /\ outcome[g] = "error" /\ chatThreads[chat[g]] = 0

\* C33: a unit without thread id is never queued and never released: from
\* the cardinality check it goes straight to processRequest and from there
\* to its end, and neither step changes a depth counter, a local chain
\* entry or the active set.
C33_NoThreadPathTouchesNothing ==
  /\ [](\A h \in Del :
          (threadId[h] = 0 /\ pc[h] # "idle") =>
            /\ pc[h] \in {"sAdd", "sCard", "running", "finished"}
            /\ releases[h] = 0)
  /\ [][\A h \in Del :
          (threadId[h] = 0 /\ pc[h] \in {"sCard", "running"} /\ pc'[h] # pc[h]) =>
            /\ pc'[h] = IF pc[h] = "sCard" THEN "running" ELSE "finished"
            /\ UNCHANGED <<queueLengths, threadQueues, activeChats>>]_vars

\* Of two units of a chat without thread that were started side by side,
\* one has finished, without release and with its chat still in the active
\* set, while the other is running.
C33_Witness ==
  \E h, g \in Del :
    /\ h # g /\ chat[h] = chat[g] /\ threadId[h] = 0 /\ threadId[g] = 0
    /\ pc[h] = "finished" /\ releases[h] = 0 /\ chat[h] \in activeChats
    /\ pc[g] = "running"

\* C36: once processRequest has returned, a progress message it posted has
\* been deleted.
C36_ProgressMessageDeleted ==
  \A h \in Del :
    (outcome[h] \in {"ok", "error"} /\ progress[h] # "none") => progress[h] = "deleted"

\* C34: for the deliveries of a thread to one process, the Redis-backed
\* dispatch rejects exactly the deliveries the in-memory dispatch rejects
\* and runs a unit only when the in-memory dispatch runs it; and the depth
\* entry of the in-memory dispatch is the number of its admitted units that
\* have not finished.
C34_SameAsInMemory ==
  /\ \A h \in Del :
       mem.state[h] # "none" => (pc[h] = "refused" <=> mem.state[h] = "rejected")
  /\ \A h \in Del :
       (threadId[h] # 0 /\ pc[h] = "running") => mem.state[h] = "running"
  /\ \A h \in Del :
       (threadId[h] # 0 /\ outcome[h] = "ok") => mem.state[h] = "done"
  /\ \A p \in Procs, t \in Threads :
       mem.lengths[p][t] =
         Cardinality({h \in Del : /\ proc[h] = p /\ threadId[h] = t
                                  /\ mem.state[h] \in {"queued", "running"}})

\* The in-memory dispatch alone: its depth entry is the number of its
\* admitted units that have not finished, and at most one unit of a thread
\* runs.
MemConsistent ==
  \A p \in Procs, t \in Threads :
    /\ mem.lengths[p][t] =
         Cardinality({h \in Del : /\ proc[h] = p /\ threadId[h] = t
                                  /\ mem.state[h] \in {"queued", "running"}})
    /\ Cardinality({h \in Del : /\ proc[h] = p /\ threadId[h] = t
                                /\ mem.state[h] = "running"}) <= 1

====
